---- MODULE Spec2Model ----
(***************************************************************************)
(* State-machine model of the EstudIA Lambda MCP bridge:                   *)
(*   src/mcp_bridge.js  the Tool-Call Adapter (twelve handleMcp*           *)
(*                      operations, callMcpTool, callMcpAlternative)       *)
(*   src/index.js       the Request Dispatcher (handler)                   *)
(*                                                                         *)
(* JavaScript values are records [t, s, n]: t is the type tag, s the       *)
(* characters of a string (or the label of an opaque object), n the value  *)
(* of a number in tenths (fixed point, one decimal digit).                 *)
(***************************************************************************)
EXTENDS Integers, Sequences, FiniteSets, TLC

\* ------------------------------------------------------------ JS values

Undef == [t |-> "undefined", s |-> <<>>, n |-> 0]
Null == [t |-> "null", s |-> <<>>, n |-> 0]
NaN == [t |-> "nan", s |-> <<>>, n |-> 0]
Str(cs) == [t |-> "string", s |-> cs, n |-> 0]
\* a number, given in tenths: Num(11) is 1.1, Num(500) is 50
Num(k) == [t |-> "number", s |-> <<>>, n |-> k]
Int10(i) == Num(10 * i)
Bool(b) == [t |-> "boolean", s |-> <<>>, n |-> IF b THEN 1 ELSE 0]
\* an opaque plain object / array, told apart by its label
Obj(label) == [t |-> "object", s |-> <<label>>, n |-> 0]
Arr(label) == [t |-> "array", s |-> <<label>>, n |-> 0]

\* JavaScript truthiness (the `!x`, `x || y`, `x ? a : b` tests of the code)
Truthy(v) ==
  CASE v.t = "undefined" -> FALSE
    [] v.t = "null" -> FALSE
    [] v.t = "nan" -> FALSE
    [] v.t = "string" -> Len(v.s) > 0
    [] v.t = "number" -> v.n # 0
    [] v.t = "boolean" -> v.n = 1
    [] OTHER -> TRUE

\* x || y
OrElse(x, y) == IF Truthy(x) THEN x ELSE y

IsWhite(c) == c \in {" ", "\t", "\n", "\r"}

RECURSIVE TrimStart(_)
TrimStart(cs) ==
  IF cs = <<>> THEN <<>>
  ELSE IF IsWhite(Head(cs)) THEN TrimStart(Tail(cs)) ELSE cs

RECURSIVE TrimEnd(_)
TrimEnd(cs) ==
  IF cs = <<>> THEN <<>>
  ELSE IF IsWhite(cs[Len(cs)]) THEN TrimEnd(SubSeq(cs, 1, Len(cs) - 1)) ELSE cs

\* String.prototype.trim
Trim(cs) == TrimEnd(TrimStart(cs))

UpperAlpha == <<"A","B","C","D","E","F","G","H","I","J","K","L","M",
                "N","O","P","Q","R","S","T","U","V","W","X","Y","Z">>
LowerAlpha == <<"a","b","c","d","e","f","g","h","i","j","k","l","m",
                "n","o","p","q","r","s","t","u","v","w","x","y","z">>

LowerChar(c) ==
  IF \E i \in DOMAIN UpperAlpha : UpperAlpha[i] = c
  THEN LowerAlpha[CHOOSE i \in DOMAIN UpperAlpha : UpperAlpha[i] = c]
  ELSE c

\* String.prototype.toLowerCase
ToLowerCase(cs) == [i \in DOMAIN cs |-> LowerChar(cs[i])]

Digits == <<"0","1","2","3","4","5","6","7","8","9">>
IsDigit(c) == \E i \in DOMAIN Digits : Digits[i] = c
DigitVal(c) == (CHOOSE i \in DOMAIN Digits : Digits[i] = c) - 1

\* the longest prefix of cs made of decimal digits
RECURSIVE DigitPrefix(_)
DigitPrefix(cs) ==
  IF cs = <<>> \/ ~IsDigit(Head(cs)) THEN <<>>
  ELSE <<Head(cs)>> \o DigitPrefix(Tail(cs))

RECURSIVE DigitsValue(_)
DigitsValue(ds) ==
  IF ds = <<>> THEN 0
  ELSE 10 * DigitsValue(SubSeq(ds, 1, Len(ds) - 1)) + DigitVal(ds[Len(ds)])

RECURSIVE NatToChars(_)
NatToChars(k) ==
  IF k < 10 THEN <<Digits[k + 1]>>
  ELSE NatToChars(k \div 10) \o <<Digits[(k % 10) + 1]>>

\* Number.prototype.toString of a number given in tenths
NumToChars(k) ==
  LET a == IF k < 0 THEN -k ELSE k
      sign == IF k < 0 THEN <<"-">> ELSE <<>>
      frac == IF a % 10 = 0 THEN <<>> ELSE <<".", Digits[(a % 10) + 1]>>
  IN sign \o NatToChars(a \div 10) \o frac

\* ToString of the values parseInt/parseFloat are handed; the string forms
\* of undefined, null, NaN, booleans, objects start with a letter or "["
ToChars(v) ==
  CASE v.t = "string" -> v.s
    [] v.t = "number" -> NumToChars(v.n)
    [] OTHER -> <<"?">>

\* parseInt(v) (radix 10): leading white space, a sign, leading digits
ParseInt(v) ==
  LET cs == TrimStart(ToChars(v))
      neg == cs # <<>> /\ Head(cs) = "-"
      signed == cs # <<>> /\ Head(cs) \in {"-", "+"}
      rest == IF signed THEN Tail(cs) ELSE cs
      ds == DigitPrefix(rest)
  IN IF ds = <<>> THEN NaN
     ELSE Int10(IF neg THEN -DigitsValue(ds) ELSE DigitsValue(ds))

\* parseFloat(v): leading white space, a sign, digits, "." and digits.
\* The result is kept to one decimal digit (the resolution of Num).
ParseFloat(v) ==
  LET cs == TrimStart(ToChars(v))
      neg == cs # <<>> /\ Head(cs) = "-"
      signed == cs # <<>> /\ Head(cs) \in {"-", "+"}
      rest == IF signed THEN Tail(cs) ELSE cs
      ds == DigitPrefix(rest)
      after == SubSeq(rest, Len(ds) + 1, Len(rest))
      fs == IF after # <<>> /\ Head(after) = "." THEN DigitPrefix(Tail(after)) ELSE <<>>
      tenths == 10 * DigitsValue(ds) + (IF fs = <<>> THEN 0 ELSE DigitVal(fs[1]))
  IN IF ds = <<>> /\ fs = <<>> THEN NaN
     ELSE Num(IF neg THEN -tenths ELSE tenths)

IsNaN(v) == v.t = "nan"

\* String.prototype.substring(a, b)
Substring(cs, a, b) == SubSeq(cs, a + 1, IF b < Len(cs) THEN b ELSE Len(cs))

\* cs.substring(0, k) + (cs.length > k ? '...' : '')
Preview(cs, k) == Substring(cs, 0, k) \o (IF Len(cs) > k THEN <<".", ".", ".">> ELSE <<>>)

\* the outcome of the test `!x || !x.trim()`: a value that is truthy and no
\* string has no trim method, and the call raises a TypeError
TrimTest(x) ==
  IF ~Truthy(x) THEN "reject"
  ELSE IF x.t # "string" THEN "throw"
  ELSE IF ~Truthy(Str(Trim(x.s))) THEN "reject"
  ELSE "pass"

\* ------------------------------------------- parameter bags and arguments

\* an object with the given fields: a key whose value is undefined is left
\* out (JSON has no undefined, and destructuring reads an absent key as it)
Bag(f) == [k \in {j \in DOMAIN f : f[j] # Undef} |-> f[k]]

EmptyBag == <<>>

\* obj.k
Get(obj, k) == IF k \in DOMAIN obj THEN obj[k] ELSE Undef

\* a faulty variant of Flat: the arguments are put under the key `request`
FlatUnderRequest(f) == [nested |-> TRUE, fields |-> Bag(f)]

\* the tool arguments: flat, or nested one level under the key `request`
Flat(f) == [nested |-> FALSE, fields |-> Bag(f)]
Nested(f) == [nested |-> TRUE, fields |-> Bag(f)]
NoArgs == [nested |-> FALSE, fields |-> EmptyBag]

\* ----------------------------------------------- parsed backend bodies

\* a parsed response body: a JS value and, for an object, its `result` and
\* `error` fields and the `code` of an error object
LiftVal(v) == [t |-> v.t, s |-> v.s, n |-> v.n, result |-> Undef, error |-> Undef, code |-> 0]
JsonObj(label, result, error, code) ==
  [t |-> "object", s |-> <<label>>, n |-> 0, result |-> result, error |-> error, code |-> code]
NoBody == LiftVal(Undef)

\* reading a property of null or undefined raises a TypeError
PropThrows(b) == b.t \in {"null", "undefined"}

\* ------------------------------------------------ operation results

Meta(f) == Bag(f)
NoMeta == <<>>

\* the body of a {statusCode, body} pair; an absent key is the empty
\* sequence, the empty string, FALSE or undefined
NoResultBody ==
  [error |-> <<>>, errorBody |-> NoBody, required |-> <<>>, optional |-> <<>>,
   allowed |-> <<>>, hint |-> "", received |-> Undef, success |-> FALSE,
   data |-> NoBody, source |-> "", timestamp |-> FALSE, metadata |-> NoMeta,
   message |-> "", status |-> "", service |-> "", endpoints |-> <<>>,
   endpoint_requested |-> "", path |-> "", method |-> "",
   available_endpoints |-> <<>>, tip |-> ""]

NoResult == [statusCode |-> 0, body |-> NoResultBody]

\* what the part of a handler that runs before the first await does:
\* return a result, raise an exception, or call a backend tool
Return(result) == [kind |-> "return", result |-> result, tool |-> "", args |-> NoArgs]
Throw == [kind |-> "throw", result |-> NoResult, tool |-> "", args |-> NoArgs]
Call(tool, args) == [kind |-> "call", result |-> NoResult, tool |-> tool, args |-> args]

BadRequest == 400

\* a validation reply: {error, required, optional, hint}
Missing(error, required, optional, hint) ==
  [statusCode |-> BadRequest,
   body |-> [NoResultBody EXCEPT !.error = <<error>>, !.required = required,
                                 !.optional = optional, !.hint = hint]]

\* a validation reply: {error, received, hint} and, for an enumeration, allowed
Invalid(error, received, allowed, hint) ==
  [statusCode |-> BadRequest,
   body |-> [NoResultBody EXCEPT !.error = <<error>>, !.received = received,
                                 !.allowed = allowed, !.hint = hint]]

\* ------------------------------------------------ the twelve handlers
\* Each handleMcp* operator is the handler's code up to its first await.

MinLimit == 1
MaxLimit == 50
DefaultLimit == 5
MinThreshold == 0
MaxThreshold == 1

cDefault == <<"d","e","f","a","u","l","t">>
cAuto == <<"a","u","t","o">>
cAnonymous == <<"a","n","o","n","y","m","o","u","s">>
cNone == <<"n","o","n","e">>
cPdf == <<"p","d","f">>
cPpt == <<"p","p","t">>

\* `const { limit = 5 } = params`: the default replaces undefined only
Default(v, d) == IF v = Undef THEN d ELSE v

FiscalOptional ==
  <<"ingresos_anuales", "estado", "regimen_actual", "tiene_rfc", "contexto_adicional">>

handleMcpFiscalAdvice(p) ==
  IF ~Truthy(Get(p, "actividad"))
  THEN Return([statusCode |-> BadRequest,
               body |-> [NoResultBody EXCEPT
                           !.error = <<"Falta el parámetro \"actividad\"">>,
                           !.required = <<"actividad">>,
                           !.optional = FiscalOptional]])
  ELSE Call("get_fiscal_advice",
            Nested([k \in {"actividad"} \cup {FiscalOptional[i] : i \in DOMAIN FiscalOptional}
                      |-> Get(p, k)]))

handleMcpGenerateEmbedding(p) ==
  LET text == Get(p, "text") IN
  IF TrimTest(text) = "throw" THEN Throw
  ELSE IF TrimTest(text) = "reject"
  THEN Return(Missing("Falta el parámetro \"text\" o está vacío", <<"text">>, <<>>,
                      "El texto no puede estar vacío para generar el embedding"))
  ELSE Call("generate_embedding", Flat("text" :> text))

handleMcpStoreDocument(p) ==
  LET text == Get(p, "text")
      classroom_id == Get(p, "classroom_id") IN
  IF TrimTest(text) = "throw" THEN Throw
  ELSE IF TrimTest(text) = "reject"
  THEN Return(Missing("Falta el parámetro \"text\" o está vacío", <<"text">>,
                      <<"classroom_id">>, "El texto del documento no puede estar vacío"))
  ELSE Call("store_document",
            Flat("text" :> text @@ "classroom_id" :> OrElse(classroom_id, Null)))

handleMcpSearchSimilarDocuments(p) ==
  LET query_text == Get(p, "query_text")
      classroom_id == Get(p, "classroom_id")
      limit == Default(Get(p, "limit"), Int10(DefaultLimit))
      threshold == Get(p, "threshold")
      parsedLimit == ParseInt(limit)
      parsedThreshold == ParseFloat(threshold)
  IN
  IF TrimTest(query_text) = "throw" THEN Throw
  ELSE IF TrimTest(query_text) = "reject"
  THEN Return(Missing("Falta el parámetro \"query_text\" o está vacío", <<"query_text">>,
                      <<"classroom_id", "limit", "threshold">>,
                      "El texto de consulta no puede estar vacío"))
  ELSE IF IsNaN(parsedLimit) \/ parsedLimit.n < 10 * MinLimit \/ parsedLimit.n > 10 * MaxLimit
  THEN Return(Invalid("El parámetro \"limit\" debe ser un número entre 1 y 50", limit, <<>>,
                      "Usa un valor numérico válido para limitar los resultados"))
  ELSE IF threshold # Undef
          /\ (IsNaN(parsedThreshold) \/ parsedThreshold.n < 10 * MinThreshold
              \/ parsedThreshold.n > 10 * MaxThreshold)
  THEN Return(Invalid("El parámetro \"threshold\" debe ser un número entre 0 y 1", threshold,
                      <<>>, "El threshold representa la similitud mínima (0=cualquier similitud, 1=idéntico)"))
  ELSE Call("search_similar_documents",
            Flat("query_text" :> query_text @@ "limit" :> parsedLimit
                 @@ "classroom_id" :> (IF Truthy(classroom_id) THEN classroom_id ELSE Undef)
                 @@ "threshold" :> (IF threshold # Undef THEN ParseFloat(threshold) ELSE Undef)))

ChunkRequired == <<"classroom_document_id", "chunk_index", "content">>

handleMcpStoreDocumentChunk(p) ==
  LET classroom_document_id == Get(p, "classroom_document_id")
      chunk_index == Get(p, "chunk_index")
      content == Get(p, "content")
      token_count == Get(p, "token_count")
  IN
  IF TrimTest(classroom_document_id) = "throw" THEN Throw
  ELSE IF TrimTest(classroom_document_id) = "reject"
  THEN Return(Missing("Falta el parámetro \"classroom_document_id\"", ChunkRequired,
                      <<"token_count">>, "El ID del documento es obligatorio"))
  ELSE IF chunk_index = Undef \/ chunk_index = Null
  THEN Return(Missing("Falta el parámetro \"chunk_index\"", ChunkRequired, <<>>,
                      "El índice del chunk es obligatorio (0, 1, 2, ...)"))
  ELSE IF TrimTest(content) = "throw" THEN Throw
  ELSE IF TrimTest(content) = "reject"
  THEN Return(Missing("Falta el parámetro \"content\" o está vacío", ChunkRequired, <<>>,
                      "El contenido del chunk no puede estar vacío"))
  ELSE Call("store_document_chunk",
            Flat("classroom_document_id" :> classroom_document_id
                 @@ "chunk_index" :> ParseInt(chunk_index)
                 @@ "content" :> content
                 @@ "token_count" :> (IF Truthy(token_count) THEN ParseInt(token_count) ELSE Undef)))

handleMcpSearchSimilarChunks(p) ==
  LET query_text == Get(p, "query_text")
      classroom_id == Get(p, "classroom_id")
      limit == Default(Get(p, "limit"), Int10(DefaultLimit))
      threshold == Get(p, "threshold")
  IN
  IF TrimTest(query_text) = "throw" THEN Throw
  ELSE IF TrimTest(query_text) = "reject"
  THEN Return(Missing("Falta el parámetro \"query_text\" o está vacío",
                      <<"query_text", "classroom_id">>, <<"limit", "threshold">>,
                      "El texto de consulta no puede estar vacío"))
  ELSE IF TrimTest(classroom_id) = "throw" THEN Throw
  ELSE IF TrimTest(classroom_id) = "reject"
  THEN Return(Missing("Falta el parámetro \"classroom_id\"",
                      <<"query_text", "classroom_id">>, <<"limit", "threshold">>,
                      "El ID del classroom es OBLIGATORIO para esta búsqueda"))
  ELSE Call("search_similar_chunks",
            Flat("query_text" :> query_text @@ "classroom_id" :> classroom_id
                 @@ "limit" :> ParseInt(limit)
                 @@ "threshold" :> (IF Truthy(threshold) THEN ParseFloat(threshold) ELSE Undef)))

handleMcpChatWithClassroom(p) ==
  LET message == Get(p, "message")
      classroom_id == Get(p, "classroom_id")
      user_id == Get(p, "user_id")
      session_id == Get(p, "session_id")
  IN
  IF TrimTest(message) = "throw" THEN Throw
  ELSE IF TrimTest(message) = "reject"
  THEN Return(Missing("Falta el parámetro \"message\" o está vacío",
                      <<"message", "classroom_id">>, <<"user_id", "session_id">>,
                      "El mensaje del usuario no puede estar vacío"))
  ELSE IF TrimTest(classroom_id) = "throw" THEN Throw
  ELSE IF TrimTest(classroom_id) = "reject"
  THEN Return(Missing("Falta el parámetro \"classroom_id\"",
                      <<"message", "classroom_id">>, <<"user_id", "session_id">>,
                      "El ID del classroom es obligatorio"))
  ELSE Call("chat_with_classroom_assistant",
            Nested("message" :> message @@ "classroom_id" :> classroom_id
                   @@ "user_id" :> OrElse(user_id, Null)
                   @@ "session_id" :> OrElse(session_id, Null)))

handleMcpGetClassroomInfo(p) ==
  LET classroom_id == Get(p, "classroom_id") IN
  IF TrimTest(classroom_id) = "throw" THEN Throw
  ELSE IF TrimTest(classroom_id) = "reject"
  THEN Return(Missing("Falta el parámetro \"classroom_id\"", <<"classroom_id">>, <<>>,
                      "El ID del classroom es obligatorio"))
  ELSE Call("get_classroom_info", Flat("classroom_id" :> classroom_id))

handleMcpCreateEmbedding(p) ==
  LET text == Get(p, "text")
      classroom_id == Get(p, "classroom_id") IN
  IF TrimTest(text) = "throw" THEN Throw
  ELSE IF TrimTest(text) = "reject"
  THEN Return(Missing("Falta el parámetro \"text\" o está vacío", <<"text", "classroom_id">>,
                      <<>>, "El texto no puede estar vacío"))
  ELSE IF TrimTest(classroom_id) = "throw" THEN Throw
  ELSE IF TrimTest(classroom_id) = "reject"
  THEN Return(Missing("Falta el parámetro \"classroom_id\"", <<"text", "classroom_id">>,
                      <<>>, "El ID del classroom es obligatorio"))
  ELSE Call("create_embedding", Flat("text" :> text @@ "classroom_id" :> classroom_id))

handleMcpProfessorAssistant(p) ==
  LET question == Get(p, "question")
      classroom_id == Get(p, "classroom_id") IN
  IF TrimTest(question) = "throw" THEN Throw
  ELSE IF TrimTest(question) = "reject"
  THEN Return(Missing("Falta el parámetro \"question\" o está vacío",
                      <<"question", "classroom_id">>, <<>>, "La pregunta no puede estar vacía"))
  ELSE IF TrimTest(classroom_id) = "throw" THEN Throw
  ELSE IF TrimTest(classroom_id) = "reject"
  THEN Return(Missing("Falta el parámetro \"classroom_id\"",
                      <<"question", "classroom_id">>, <<>>, "El ID del classroom es obligatorio"))
  ELSE Call("professor_assistant",
            Flat("question" :> question @@ "classroom_id" :> classroom_id))

ResourcesRequired == <<"classroom_id", "resource_type", "user_id">>
ResourcesOptional == <<"topic", "source_document_ids">>
AllowedResourceTypes == <<"pdf", "ppt">>

\* a faulty variant of IsAllowedType: only pdf is allowed
IsAllowedTypePdfOnly(cs) == cs \in {cPdf}

\* ['pdf', 'ppt'].includes(cs)
IsAllowedType(cs) == cs \in {cPdf, cPpt}

handleMcpGenerateResources(p) ==
  LET classroom_id == Get(p, "classroom_id")
      resource_type == Get(p, "resource_type")
      user_id == Get(p, "user_id")
      topic == Get(p, "topic")
      source_document_ids == Get(p, "source_document_ids")
  IN
  IF TrimTest(classroom_id) = "throw" THEN Throw
  ELSE IF TrimTest(classroom_id) = "reject"
  THEN Return(Missing("Falta el parámetro \"classroom_id\"", ResourcesRequired,
                      ResourcesOptional, "El ID del classroom es obligatorio"))
  ELSE IF TrimTest(resource_type) = "throw" THEN Throw
  ELSE IF TrimTest(resource_type) = "reject"
  THEN Return(Missing("Falta el parámetro \"resource_type\"", ResourcesRequired,
                      ResourcesOptional, "El tipo de recurso es obligatorio: \"pdf\" o \"ppt\""))
  ELSE IF ~IsAllowedType(ToLowerCase(resource_type.s))
  THEN Return(Invalid("Tipo de recurso inválido", resource_type, AllowedResourceTypes,
                      "El tipo de recurso debe ser \"pdf\" o \"ppt\""))
  ELSE IF TrimTest(user_id) = "throw" THEN Throw
  ELSE IF TrimTest(user_id) = "reject"
  THEN Return(Missing("Falta el parámetro \"user_id\"", ResourcesRequired,
                      ResourcesOptional, "El ID del usuario es obligatorio"))
  ELSE Call("generate_resources",
            Flat("classroom_id" :> classroom_id
                 @@ "resource_type" :> Str(ToLowerCase(resource_type.s))
                 @@ "user_id" :> user_id
                 @@ "topic" :> (IF Truthy(topic) THEN topic ELSE Undef)
                 @@ "source_document_ids" :>
                      (IF Truthy(source_document_ids) /\ source_document_ids.t = "array"
                       THEN source_document_ids ELSE Undef)))

handleMcpAnalyzeUserContext(p) ==
  LET user_id == Get(p, "user_id")
      session_id == Get(p, "session_id") IN
  IF TrimTest(user_id) = "throw" THEN Throw
  ELSE IF TrimTest(user_id) = "reject"
  THEN Return(Missing("Falta el parámetro \"user_id\"", <<"user_id", "session_id">>, <<>>,
                      "El ID del usuario es obligatorio"))
  ELSE IF TrimTest(session_id) = "throw" THEN Throw
  ELSE IF TrimTest(session_id) = "reject"
  THEN Return(Missing("Falta el parámetro \"session_id\"", <<"user_id", "session_id">>, <<>>,
                      "El ID de la sesión es obligatorio"))
  ELSE Call("analyze_and_update_user_context",
            Flat("user_id" :> user_id @@ "session_id" :> session_id))

\* module.exports: the twelve operations
Operations ==
  {"handleMcpFiscalAdvice", "handleMcpGenerateEmbedding", "handleMcpStoreDocument",
   "handleMcpSearchSimilarDocuments", "handleMcpStoreDocumentChunk",
   "handleMcpSearchSimilarChunks", "handleMcpChatWithClassroom",
   "handleMcpGetClassroomInfo", "handleMcpCreateEmbedding",
   "handleMcpProfessorAssistant", "handleMcpGenerateResources",
   "handleMcpAnalyzeUserContext"}

\* the code of operation o up to its first await, on the Parameter Bag p
Begin(o, p) ==
  CASE o = "handleMcpFiscalAdvice" -> handleMcpFiscalAdvice(p)
    [] o = "handleMcpGenerateEmbedding" -> handleMcpGenerateEmbedding(p)
    [] o = "handleMcpStoreDocument" -> handleMcpStoreDocument(p)
    [] o = "handleMcpSearchSimilarDocuments" -> handleMcpSearchSimilarDocuments(p)
    [] o = "handleMcpStoreDocumentChunk" -> handleMcpStoreDocumentChunk(p)
    [] o = "handleMcpSearchSimilarChunks" -> handleMcpSearchSimilarChunks(p)
    [] o = "handleMcpChatWithClassroom" -> handleMcpChatWithClassroom(p)
    [] o = "handleMcpGetClassroomInfo" -> handleMcpGetClassroomInfo(p)
    [] o = "handleMcpCreateEmbedding" -> handleMcpCreateEmbedding(p)
    [] o = "handleMcpProfessorAssistant" -> handleMcpProfessorAssistant(p)
    [] o = "handleMcpGenerateResources" -> handleMcpGenerateResources(p)
    [] o = "handleMcpAnalyzeUserContext" -> handleMcpAnalyzeUserContext(p)

\* the metadata of operation o's 200 body
SuccessMeta(o, p) ==
  CASE o \in {"handleMcpFiscalAdvice", "handleMcpGetClassroomInfo"} -> NoMeta
    [] o = "handleMcpGenerateEmbedding" ->
         Meta("text_length" :> Int10(Len(Get(p, "text").s))
              @@ "text_preview" :> Str(Preview(Get(p, "text").s, 100)))
    [] o = "handleMcpStoreDocument" ->
         Meta("text_length" :> Int10(Len(Get(p, "text").s))
              @@ "classroom_id" :> OrElse(Get(p, "classroom_id"), Null)
              @@ "text_preview" :> Str(Preview(Get(p, "text").s, 100)))
    [] o = "handleMcpSearchSimilarDocuments" ->
         Meta("query_length" :> Int10(Len(Get(p, "query_text").s))
              @@ "query_preview" :> Str(Preview(Get(p, "query_text").s, 100))
              @@ "classroom_id" :> OrElse(Get(p, "classroom_id"), Null)
              @@ "limit_used" :> ParseInt(Default(Get(p, "limit"), Int10(DefaultLimit)))
              @@ "threshold_used" :> OrElse(Get(p, "threshold"), Str(cDefault)))
    [] o = "handleMcpStoreDocumentChunk" ->
         Meta("classroom_document_id" :> Get(p, "classroom_document_id")
              @@ "chunk_index" :> ParseInt(Get(p, "chunk_index"))
              @@ "content_length" :> Int10(Len(Get(p, "content").s))
              @@ "token_count" :> OrElse(Get(p, "token_count"), Str(cAuto)))
    [] o = "handleMcpSearchSimilarChunks" ->
         Meta("query_text" :> Get(p, "query_text")
              @@ "classroom_id" :> Get(p, "classroom_id")
              @@ "limit" :> ParseInt(Default(Get(p, "limit"), Int10(DefaultLimit)))
              @@ "threshold" :> OrElse(Get(p, "threshold"), Str(cDefault)))
    [] o = "handleMcpChatWithClassroom" ->
         Meta("message_length" :> Int10(Len(Get(p, "message").s))
              @@ "classroom_id" :> Get(p, "classroom_id")
              @@ "user_id" :> OrElse(Get(p, "user_id"), Str(cAnonymous))
              @@ "session_id" :> OrElse(Get(p, "session_id"), Str(cNone)))
    [] o = "handleMcpCreateEmbedding" ->
         Meta("text_length" :> Int10(Len(Get(p, "text").s))
              @@ "classroom_id" :> Get(p, "classroom_id"))
    [] o = "handleMcpProfessorAssistant" ->
         Meta("question_length" :> Int10(Len(Get(p, "question").s))
              @@ "classroom_id" :> Get(p, "classroom_id"))
    [] o = "handleMcpGenerateResources" ->
         Meta("classroom_id" :> Get(p, "classroom_id")
              @@ "resource_type" :> Str(ToLowerCase(Get(p, "resource_type").s))
              @@ "user_id" :> Get(p, "user_id")
              @@ "topic" :> OrElse(Get(p, "topic"), Null))
    [] o = "handleMcpAnalyzeUserContext" ->
         Meta("user_id" :> Get(p, "user_id") @@ "session_id" :> Get(p, "session_id"))

\* the hint of operation o's 500 body ("" where the body has none)
FailureHint(o) ==
  CASE o = "handleMcpFiscalAdvice" -> ""
    [] o = "handleMcpGenerateEmbedding" ->
         "Verifica que el servidor MCP esté funcionando y que la API de Gemini esté configurada correctamente"
    [] o = "handleMcpStoreDocument" ->
         "Verifica que el servidor MCP esté funcionando y que Supabase esté configurado correctamente"
    [] o = "handleMcpSearchSimilarDocuments" ->
         "Verifica que el servidor MCP esté funcionando y que las funciones de Supabase estén configuradas"
    [] o = "handleMcpStoreDocumentChunk" ->
         "Verifica que el documento exista y que Supabase esté configurado correctamente"
    [] o = "handleMcpSearchSimilarChunks" ->
         "Verifica que el classroom exista y que la función RPC match_classroom_chunks esté creada"
    [] o = "handleMcpChatWithClassroom" ->
         "Verifica que el classroom exista y tenga documentos cargados"
    [] o = "handleMcpGetClassroomInfo" -> "Verifica que el classroom exista"
    [] o = "handleMcpCreateEmbedding" -> "Verifica la configuración de Gemini y Supabase"
    [] o = "handleMcpProfessorAssistant" ->
         "Verifica que el classroom tenga documentos cargados"
    [] o = "handleMcpGenerateResources" ->
         "Verifica que el classroom tenga documentos cargados y que las dependencias de generación estén instaladas"
    [] o = "handleMcpAnalyzeUserContext" -> "Verifica que el usuario y la sesión existan"

OK == 200
InternalError == 500

\* the handler's code after `await callMcpTool(...)` returned `result`
Success(o, p, result) ==
  [statusCode |-> OK,
   body |-> [NoResultBody EXCEPT !.success = TRUE, !.data = result,
                                 !.source = "mcp_server", !.timestamp = TRUE,
                                 !.metadata = SuccessMeta(o, p)]]

\* a faulty variant of Failure: the catch block answers with the validation status
FailureAsBadRequest(o, error, errorBody) ==
  [statusCode |-> BadRequest,
   body |-> [NoResultBody EXCEPT !.error = error, !.errorBody = errorBody,
                                 !.timestamp = TRUE, !.hint = FailureHint(o)]]

\* a faulty variant of Failure: a backend failure is answered as a gateway
\* error, a status outside the four the system uses
FailureAsBadGateway(o, error, errorBody) ==
  [statusCode |-> 502,
   body |-> [NoResultBody EXCEPT !.error = error, !.errorBody = errorBody,
                                 !.timestamp = TRUE, !.hint = FailureHint(o)]]

\* the handler's catch block: `error` is the message of the caught Error,
\* errorBody the backend body serialized into it (NoBody when there is none)
Failure(o, error, errorBody) ==
  [statusCode |-> InternalError,
   body |-> [NoResultBody EXCEPT !.error = error, !.errorBody = errorBody,
                                 !.timestamp = TRUE, !.hint = FailureHint(o)]]

\* --------------------------------------------- the backend exchange

InvalidRequest == -32600

\* what callMcpTool or callMcpAlternative does with a completed exchange
Returned(payload) == [kind |-> "return", payload |-> payload, error |-> <<>>, errorBody |-> NoBody]
Thrown(error, errorBody) == [kind |-> "throw", payload |-> NoBody, error |-> error, errorBody |-> errorBody]
Retry == [kind |-> "alternative", payload |-> NoBody, error |-> <<>>, errorBody |-> NoBody]

TypeErrorMessage == "Cannot read properties of null"

\* callMcpAlternative after its await: r is the settled exchange, either a
\* response [kind |-> "response", statusCode, body] or a transport error
callMcpAlternative(r) ==
  IF r.kind = "error" THEN Thrown(<<r.message>>, NoBody)
  ELSE IF r.statusCode = OK THEN Returned(r.body)
  ELSE Thrown(<<"Error en método alternativo: ">>, r.body)

\* callMcpTool after the await of the primary exchange, before its catch
callMcpToolTry(r) ==
  IF r.kind = "error" THEN Thrown(<<r.message>>, NoBody)
  ELSE IF PropThrows(r.body) THEN Thrown(<<TypeErrorMessage>>, NoBody)
  ELSE IF r.statusCode = OK
  THEN (IF Truthy(r.body.result) THEN Returned(LiftVal(r.body.result)) ELSE Returned(r.body))
  ELSE IF Truthy(r.body.error) /\ r.body.code = InvalidRequest THEN Retry
  ELSE Thrown(<<"Error MCP: ">>, r.body)

\* the catch block of callMcpTool: every error raised inside it, also by
\* callMcpAlternative, is rethrown wrapped
Wrap(x) ==
  IF x.kind = "throw"
  THEN Thrown(<<"Error conectando con MCP: ">> \o x.error, x.errorBody)
  ELSE x

callMcpTool(r) == Wrap(callMcpToolTry(r))

\* the JSON-RPC envelope of the primary call, POSTed to <base>/mcp
McpRequest(toolName, toolArgs) ==
  [path |-> <<"/mcp">>, httpMethod |-> "POST", jsonrpc |-> "2.0",
   method |-> "tools/call", name |-> toolName, arguments |-> toolArgs]

\* the alternate call: the raw arguments POSTed to <base>/tools/<name>/call
RestRequest(toolName, toolArgs) ==
  [path |-> <<"/tools/", toolName, "/call">>, httpMethod |-> "POST", jsonrpc |-> "",
   method |-> "", name |-> "", arguments |-> toolArgs]

\* ------------------------------------------- the dispatcher (index.js)

\* path.includes(sub)
Includes(path, sub) ==
  \E i \in 1..(Len(path) - Len(sub) + 1) : SubSeq(path, i, i + Len(sub) - 1) = sub

\* path.replace(/\/$/, ''): one trailing slash is removed
StripSlash(path) ==
  IF Len(path) > 0 /\ SubSeq(path, Len(path), Len(path)) = "/"
  THEN SubSeq(path, 1, Len(path) - 1) ELSE path

\* x || y on strings ('' is falsy, as an absent key is)
OrStr(x, y) == IF x # "" THEN x ELSE y

\* a faulty variant of getEndpoint: the professor row is tested before the
\* classroom row
getEndpointProfessorFirst(event) ==
  LET path == StripSlash(OrStr(event.path, OrStr(event.rawPath, event.resourcePath))) IN
  IF Includes(path, "/fiscal-advice") \/ Includes(path, "/fiscaladvice") THEN "fiscal-advice"
  ELSE IF Includes(path, "/generate-embedding") \/ Includes(path, "/embedding")
  THEN "generate-embedding"
  ELSE IF Includes(path, "/store-document-chunk") \/ Includes(path, "/store-chunk")
  THEN "store-document-chunk"
  ELSE IF Includes(path, "/search-chunks") \/ Includes(path, "/chunks") THEN "search-chunks"
  ELSE IF Includes(path, "/chat-classroom") THEN "chat-classroom"
  ELSE IF Includes(path, "/professor-assistant") \/ Includes(path, "/professor")
  THEN "professor-assistant"
  ELSE IF Includes(path, "/classroom-info") \/ Includes(path, "/classroom")
  THEN "classroom-info"
  ELSE IF Includes(path, "/create-embedding") THEN "create-embedding"
  ELSE IF Includes(path, "/generate-resources") \/ Includes(path, "/resources")
  THEN "generate-resources"
  ELSE IF Includes(path, "/analyze-user-context") \/ Includes(path, "/analyze-context")
  THEN "analyze-user-context"
  ELSE IF Includes(path, "/health") THEN "health"
  ELSE IF path \in {"/", "", "/info"} THEN "info"
  ELSE "unknown"

getEndpoint(event) ==
  LET path == StripSlash(OrStr(event.path, OrStr(event.rawPath, event.resourcePath))) IN
  IF Includes(path, "/fiscal-advice") \/ Includes(path, "/fiscaladvice") THEN "fiscal-advice"
  ELSE IF Includes(path, "/generate-embedding") \/ Includes(path, "/embedding")
  THEN "generate-embedding"
  ELSE IF Includes(path, "/store-document-chunk") \/ Includes(path, "/store-chunk")
  THEN "store-document-chunk"
  ELSE IF Includes(path, "/search-chunks") \/ Includes(path, "/chunks") THEN "search-chunks"
  ELSE IF Includes(path, "/chat-classroom") THEN "chat-classroom"
  ELSE IF Includes(path, "/classroom-info") \/ Includes(path, "/classroom")
  THEN "classroom-info"
  ELSE IF Includes(path, "/create-embedding") THEN "create-embedding"
  ELSE IF Includes(path, "/professor-assistant") \/ Includes(path, "/professor")
  THEN "professor-assistant"
  ELSE IF Includes(path, "/generate-resources") \/ Includes(path, "/resources")
  THEN "generate-resources"
  ELSE IF Includes(path, "/analyze-user-context") \/ Includes(path, "/analyze-context")
  THEN "analyze-user-context"
  ELSE IF Includes(path, "/health") THEN "health"
  ELSE IF path \in {"/", "", "/info"} THEN "info"
  ELSE "unknown"

\* { ...a, ...b }: the keys of b win
Merge(a, b) == [k \in DOMAIN a \cup DOMAIN b |-> IF k \in DOMAIN b THEN b[k] ELSE a[k]]

\* extractParams: the Parameter Bag of an event, or the SyntaxError that
\* JSON.parse raises on a body that is no JSON text.
\* event.body is absent ("none"), an object ("object"), a JSON text of an
\* object ("json") or a text that is no JSON ("invalid").
extractParams(event) ==
  LET fromQuery == IF event.hasQuery THEN event.query ELSE EmptyBag
      hasBody == event.bodyKind # "none"
      merged == IF hasBody THEN Merge(fromQuery, event.body) ELSE fromQuery
  IN IF event.bodyKind = "invalid" THEN [threw |-> TRUE, params |-> EmptyBag]
     ELSE IF ~event.hasQuery /\ ~hasBody /\ event.httpMethod = ""
     THEN [threw |-> FALSE, params |-> event.own]
     ELSE [threw |-> FALSE, params |-> merged]

CorsHeaders ==
  [ContentType |-> "application/json", AllowOrigin |-> "*",
   AllowMethods |-> "GET, POST, OPTIONS", AllowHeaders |-> "Content-Type, Authorization"]

\* createResponse: body is the record JSON.stringify serializes
createResponse(statusCode, body) ==
  [statusCode |-> statusCode, headers |-> CorsHeaders, body |-> body]

NoResponse == [statusCode |-> 0, headers |-> CorsHeaders, body |-> NoResultBody]

NotFound == 404

AvailableEndpoints ==
  <<"/health", "/generate-embedding", "/create-embedding", "/store-document-chunk",
    "/search-chunks", "/chat-classroom", "/classroom-info", "/professor-assistant",
    "/generate-resources", "/analyze-user-context", "/fiscal-advice (legacy)">>

InfoEndpoints ==
  <<"/health", "/generate-embedding", "/create-embedding", "/store-document-chunk",
    "/search-chunks", "/chat-classroom", "/professor-assistant", "/classroom-info",
    "/generate-resources", "/analyze-user-context", "/fiscal-advice">>

\* the operation the handler's switch runs for an endpoint ("" for none)
Route(endpoint) ==
  CASE endpoint = "fiscal-advice" -> "handleMcpFiscalAdvice"
    [] endpoint = "generate-embedding" -> "handleMcpGenerateEmbedding"
    [] endpoint = "store-document-chunk" -> "handleMcpStoreDocumentChunk"
    [] endpoint = "search-chunks" -> "handleMcpSearchSimilarChunks"
    [] endpoint = "chat-classroom" -> "handleMcpChatWithClassroom"
    [] endpoint = "classroom-info" -> "handleMcpGetClassroomInfo"
    [] endpoint = "create-embedding" -> "handleMcpCreateEmbedding"
    [] endpoint = "professor-assistant" -> "handleMcpProfessorAssistant"
    [] endpoint = "generate-resources" -> "handleMcpGenerateResources"
    [] endpoint = "analyze-user-context" -> "handleMcpAnalyzeUserContext"
    [] OTHER -> ""

\* a faulty variant of IsOptions: only httpMethod is looked at
IsOptionsRestOnly(event) == event.httpMethod = "OPTIONS"

\* the method of an event: httpMethod, or requestContext.http.method
IsOptions(event) == event.httpMethod = "OPTIONS" \/ event.contextMethod = "OPTIONS"

OptionsResponse == createResponse(OK, [NoResultBody EXCEPT !.message = "OK"])

HealthResponse ==
  createResponse(OK, [NoResultBody EXCEPT !.status = "healthy",
                                          !.service = "FiscAI Lambda MCP Bridge",
                                          !.timestamp = TRUE])

InfoResponse ==
  createResponse(OK, [NoResultBody EXCEPT !.service = "EstudIA Lambda - MCP Bridge",
                                          !.endpoints = InfoEndpoints,
                                          !.timestamp = TRUE])

NotFoundResponse(event, endpoint) ==
  createResponse(NotFound,
    [NoResultBody EXCEPT !.error = <<"Endpoint no encontrado">>,
                         !.endpoint_requested = endpoint,
                         !.path = OrStr(event.path, OrStr(event.rawPath, "N/A")),
                         !.method = OrStr(event.httpMethod, OrStr(event.contextMethod, "N/A")),
                         !.available_endpoints = AvailableEndpoints,
                         !.tip = "Accede a / o /info para ver la documentación completa",
                         !.timestamp = TRUE])

\* the handler's catch block
CaughtResponse(message) ==
  createResponse(InternalError,
    [NoResultBody EXCEPT !.error = <<message>>, !.timestamp = TRUE])

TrimTypeError == "x.trim is not a function"
JsonSyntaxError == "Unexpected token in JSON"

\* ------------------------------------------------------- input domains

cBlank == <<" ", " ">>
cAb == <<"a", "b">>

\* values of a required string parameter: absent, empty, blank, a text, a number
StringInputs == {Undef, Str(<<>>), Str(cBlank), Str(cAb), Int10(7)}
OptionalIds == {Undef, Str(cAb)}
LimitInputs ==
  {Undef, Int10(0), Int10(1), Int10(50), Int10(51), Str(<<"a","b","c">>), Str(<<"5">>)}
ThresholdInputs ==
  {Undef, Num(-1), Num(0), Num(10), Num(11), Str(<<"a","b","c">>), Str(<<"0",".","5">>)}
ChunkIndexInputs == {Undef, Null, Int10(0), Int10(2), Str(<<"x">>)}
TokenCountInputs == {Undef, Int10(0), Int10(30)}
ResourceTypeInputs ==
  {Undef, Str(<<>>), Str(cBlank), Str(<<"c","s","v">>), Str(<<"P","D","F">>), Str(cPdf),
   Str(cPpt), Str(<<"P","p","t">>), Int10(7)}
TopicInputs == {Undef, Str(cAb)}
DocumentIdsInputs == {Undef, Arr("ids"), Str(cAb)}

\* the Parameter Bags operation o is called with
Inputs(o) ==
  CASE o = "handleMcpFiscalAdvice" ->
         {Bag("actividad" :> a @@ "ingresos_anuales" :> i) :
            a \in StringInputs, i \in {Undef, Int10(1000)}}
    [] o = "handleMcpGenerateEmbedding" -> {Bag("text" :> x) : x \in StringInputs}
    [] o = "handleMcpStoreDocument" ->
         {Bag("text" :> x @@ "classroom_id" :> c) : x \in StringInputs, c \in OptionalIds}
    [] o = "handleMcpSearchSimilarDocuments" ->
         {Bag("query_text" :> q @@ "classroom_id" :> c @@ "limit" :> l @@ "threshold" :> h) :
            q \in StringInputs, c \in OptionalIds, l \in LimitInputs, h \in ThresholdInputs}
    [] o = "handleMcpStoreDocumentChunk" ->
         {Bag("classroom_document_id" :> d @@ "chunk_index" :> i @@ "content" :> c
              @@ "token_count" :> k) :
            d \in StringInputs, i \in ChunkIndexInputs, c \in StringInputs,
            k \in TokenCountInputs}
    [] o = "handleMcpSearchSimilarChunks" ->
         {Bag("query_text" :> q @@ "classroom_id" :> c @@ "limit" :> l @@ "threshold" :> h) :
            q \in StringInputs, c \in StringInputs, l \in LimitInputs, h \in ThresholdInputs}
    [] o = "handleMcpChatWithClassroom" ->
         {Bag("message" :> m @@ "classroom_id" :> c @@ "user_id" :> u @@ "session_id" :> x) :
            m \in StringInputs, c \in StringInputs, u \in OptionalIds, x \in OptionalIds}
    [] o = "handleMcpGetClassroomInfo" -> {Bag("classroom_id" :> c) : c \in StringInputs}
    [] o = "handleMcpCreateEmbedding" ->
         {Bag("text" :> x @@ "classroom_id" :> c) : x \in StringInputs, c \in StringInputs}
    [] o = "handleMcpProfessorAssistant" ->
         {Bag("question" :> q @@ "classroom_id" :> c) : q \in StringInputs, c \in StringInputs}
    [] o = "handleMcpGenerateResources" ->
         {Bag("classroom_id" :> c @@ "resource_type" :> r @@ "user_id" :> u @@ "topic" :> x
              @@ "source_document_ids" :> d) :
            c \in StringInputs, r \in ResourceTypeInputs, u \in StringInputs,
            x \in TopicInputs, d \in DocumentIdsInputs}
    [] o = "handleMcpAnalyzeUserContext" ->
         {Bag("user_id" :> u @@ "session_id" :> x) : u \in StringInputs, x \in StringInputs}

\* the bodies the backend answers with, as makeHttpRequest hands them on
Bodies ==
  {JsonObj("r1", Obj("advice"), Undef, 0),        \* {"result": {"advice": "x"}}
   JsonObj("r2", Null, Undef, 0),                 \* {"result": null}
   JsonObj("r3", Int10(0), Undef, 0),             \* {"result": 0}
   JsonObj("r4", Bool(FALSE), Undef, 0),          \* {"result": false}
   JsonObj("r5", Str(<<>>), Undef, 0),            \* {"result": ""}
   JsonObj("plain", Undef, Undef, 0),             \* {"ok": 1}
   JsonObj("e1", Undef, Obj("error"), InvalidRequest),  \* {"error": {"code": -32600}}
   JsonObj("e2", Undef, Obj("error"), -32601),    \* {"error": {"code": -32601}}
   LiftVal(Str(<<"<", "h", "t", "m", "l", ">">>)),  \* a body that is no JSON: the raw text
   LiftVal(Null)}                                 \* the JSON text null

StatusCodes == {200, 201, 503}

Response(statusCode, body) ==
  [kind |-> "response", statusCode |-> statusCode, body |-> body, message |-> ""]
TransportError(message) ==
  [kind |-> "error", statusCode |-> 0, body |-> NoBody, message |-> message]

\* the ways one exchange with the backend settles
Exchanges ==
  {Response(c, b) : c \in StatusCodes, b \in Bodies} \cup {TransportError("ECONNREFUSED")}

\* ------------------------------------------------------- inbound events

NoEvent ==
  [isEvent |-> FALSE, httpMethod |-> "", contextMethod |-> "", path |-> "", rawPath |-> "",
   resourcePath |-> "", hasQuery |-> FALSE, query |-> EmptyBag, bodyKind |-> "none",
   body |-> EmptyBag, own |-> EmptyBag]

\* an API Gateway (REST) event
RestEvent(method, path, bodyKind, body) ==
  [NoEvent EXCEPT !.isEvent = TRUE, !.httpMethod = method, !.path = path,
                  !.bodyKind = bodyKind, !.body = body]

\* an API Gateway (HTTP API) event: rawPath and requestContext.http.method
HttpApiEvent(method, rawPath) ==
  [NoEvent EXCEPT !.isEvent = TRUE, !.contextMethod = method, !.rawPath = rawPath]

QueryEvent(method, path, query, bodyKind, body) ==
  [NoEvent EXCEPT !.isEvent = TRUE, !.httpMethod = method, !.path = path, !.hasQuery = TRUE,
                  !.query = query, !.bodyKind = bodyKind, !.body = body]

\* a direct invocation: the event itself carries the parameters
DirectEvent(path, own) == [NoEvent EXCEPT !.isEvent = TRUE, !.path = path, !.own = own]

RoutedOperations == Operations \ {"handleMcpStoreDocument", "handleMcpSearchSimilarDocuments"}

CanonicalPath(o) ==
  CASE o = "handleMcpFiscalAdvice" -> "/fiscal-advice"
    [] o = "handleMcpGenerateEmbedding" -> "/generate-embedding"
    [] o = "handleMcpStoreDocumentChunk" -> "/store-document-chunk"
    [] o = "handleMcpSearchSimilarChunks" -> "/search-chunks"
    [] o = "handleMcpChatWithClassroom" -> "/chat-classroom"
    [] o = "handleMcpGetClassroomInfo" -> "/classroom-info"
    [] o = "handleMcpCreateEmbedding" -> "/create-embedding"
    [] o = "handleMcpProfessorAssistant" -> "/professor-assistant"
    [] o = "handleMcpGenerateResources" -> "/generate-resources"
    [] o = "handleMcpAnalyzeUserContext" -> "/analyze-user-context"

Paths ==
  {CanonicalPath(o) : o \in RoutedOperations}
  \cup {"/fiscaladvice", "/embedding", "/store-chunk", "/chunks", "/classroom", "/professor",
        "/resources", "/analyze-context", "/health", "/", "", "/info", "/nope",
        "/prod/fiscal-advice/", "/classroom/professor-assistant", "/healthz/resources"}

Events ==
  UNION {{RestEvent("POST", CanonicalPath(o), "json", b) : b \in Inputs(o)} :
           o \in RoutedOperations}
  \cup {RestEvent(m, q, "none", EmptyBag) : m \in {"GET", "OPTIONS"}, q \in Paths}
  \cup {HttpApiEvent(m, q) : m \in {"GET", "OPTIONS"}, q \in Paths}
  \cup {RestEvent(m, q, "invalid", EmptyBag) :
          m \in {"POST", "OPTIONS"}, q \in {"/classroom-info", "/health", "/nope", ""}}
  \cup {RestEvent("POST", "/classroom-info", "object", Bag("classroom_id" :> Str(cAb))),
        QueryEvent("GET", "/classroom-info", Bag("classroom_id" :> Str(cAb)), "none", EmptyBag),
        QueryEvent("POST", "/chat-classroom", Bag("classroom_id" :> Str(cAb)), "json",
                   Bag("message" :> Str(cAb) @@ "classroom_id" :> Str(cBlank))),
        QueryEvent("POST", "/chat-classroom", Bag("classroom_id" :> Str(cAb)), "json",
                   Bag("message" :> Str(cAb))),
        DirectEvent("/fiscal-advice", Bag("actividad" :> Str(cAb))),
        DirectEvent("", Bag("actividad" :> Str(cAb)))}

\* ------------------------------------------------------------- state

VARIABLES
  pc,        \* "idle", "primary" (awaiting /mcp), "alternative" (awaiting /tools/..), "done"
  event,     \* the inbound event of the handler (NoEvent: the operation is called directly)
  op,        \* the operation being executed ("" for none)
  params,    \* its Parameter Bag
  calls,     \* the outbound requests issued for this invocation, in order
  inflight,  \* the indices in calls of the requests not yet settled
  replies,   \* how the settled requests settled, in order
  outcome,   \* how the operation ended: returned a {statusCode, body} pair, or threw
  response,  \* the handler's reply to the caller (NoResponse: none yet)
  now,       \* the reading of the clock (Date.now())
  requests,  \* the calls of callMcpTool running concurrently in the process
  res,       \* a completed backend response as makeHttpRequest receives it
  resolved,  \* what makeHttpRequest resolved with for res
  interpreted  \* what callMcpTool made of the resolved response

\* the state of one invocation of the handler or of an operation
invocation == <<pc, event, op, params, calls, inflight, replies, outcome, response>>
\* the state of the concurrent calls of callMcpTool
concurrent == <<now, requests>>
\* the state of one run of makeHttpRequest's end callback
transport == <<res, resolved, interpreted>>

vars == <<pc, event, op, params, calls, inflight, replies, outcome, response,
          now, requests, res, resolved, interpreted>>

NoOutcome == [kind |-> "none", result |-> NoResult]

\* no response received, nothing extracted
NoRes == [contentType |-> "", data |-> <<>>]
NoExtract == [kind |-> "none", payload |-> NoBody, error |-> <<>>, errorBody |-> NoBody]
ReturnedResult(result) == [kind |-> "returned", result |-> result]
Threw == [kind |-> "threw", result |-> NoResult]

\* no invocation is being handled and no call of callMcpTool runs
Idle ==
  /\ pc = "idle"
  /\ event = NoEvent
  /\ op = ""
  /\ params = EmptyBag
  /\ calls = <<>>
  /\ inflight = {}
  /\ replies = <<>>
  /\ outcome = NoOutcome
  /\ response = NoResponse
  /\ now = 0
  /\ requests = <<>>

Init ==
  /\ Idle
  /\ res = NoRes
  /\ resolved = NoBody
  /\ interpreted = NoExtract

\* the end of operation o on bag p, given what callMcpTool did
Settle(o, p, x) ==
  IF x.kind = "return" THEN ReturnedResult(Success(o, p, x.payload))
  ELSE ReturnedResult(Failure(o, x.error, x.errorBody))

\* a faulty variant of Reply: an exception of the operation is not caught,
\* the invocation crashes without a response
ReplyUncaught(e, out) ==
  IF ~e.isEvent \/ out.kind = "threw" THEN NoResponse
  ELSE createResponse(out.result.statusCode, out.result.body)

\* the handler's `return createResponse(result.statusCode, result.body)`
\* (nothing when the operation was called directly)
Reply(e, out) ==
  IF ~e.isEvent THEN NoResponse
  ELSE IF out.kind = "threw" THEN CaughtResponse(TrimTypeError)
  ELSE createResponse(out.result.statusCode, out.result.body)

\* operation o starts on bag p for event e and runs to its first await
Start(e, o, p) ==
  \E plan \in {Begin(o, p)} :
    /\ event' = e
    /\ op' = o
    /\ params' = p
    /\ replies' = <<>>
    /\ IF plan.kind = "call"
       THEN /\ pc' = "primary"
            /\ calls' = <<McpRequest(plan.tool, plan.args)>>
            /\ inflight' = {1}
            /\ outcome' = NoOutcome
            /\ response' = NoResponse
       ELSE /\ pc' = "done"
            /\ calls' = <<>>
            /\ inflight' = {}
            /\ outcome' = (IF plan.kind = "throw" THEN Threw ELSE ReturnedResult(plan.result))
            /\ response' = Reply(e, outcome')

\* an exported operation is called directly with a Parameter Bag
Invoke ==
  /\ pc = "idle"
  /\ \E o \in Operations : \E p \in Inputs(o) : Start(NoEvent, o, p)
  /\ UNCHANGED <<concurrent, transport>>

\* the handler answers an event without running an operation
Answer(e, r) ==
  /\ event' = e
  /\ op' = ""
  /\ params' = EmptyBag
  /\ replies' = <<>>
  /\ pc' = "done"
  /\ calls' = <<>>
  /\ inflight' = {}
  /\ outcome' = NoOutcome
  /\ response' = r

\* exports.handler up to its first await
Handle ==
  /\ pc = "idle"
  /\ \E e \in Events : \E endpoint \in {getEndpoint(e)} : \E extracted \in {extractParams(e)} :
       IF IsOptions(e) THEN Answer(e, OptionsResponse)
       ELSE IF extracted.threw THEN Answer(e, CaughtResponse(JsonSyntaxError))
       ELSE IF Route(endpoint) # ""
       THEN \E o \in {Route(endpoint)} : \E p \in {extracted.params} : Start(e, o, p)
       ELSE IF endpoint = "health" THEN Answer(e, HealthResponse)
       ELSE IF endpoint = "info" THEN Answer(e, InfoResponse)
       ELSE Answer(e, NotFoundResponse(e, endpoint))
  /\ UNCHANGED <<concurrent, transport>>

\* a faulty variant of PrimaryReply: the alternate call is issued but not
\* awaited, and callMcpTool goes on to its generic error
PrimaryReplyNotAwaiting ==
  /\ pc = "primary"
  /\ \E r \in Exchanges : \E x \in {callMcpTool(r)} :
       /\ replies' = Append(replies, r)
       /\ pc' = "done"
       /\ IF x.kind = "alternative"
          THEN /\ calls' = Append(calls, RestRequest(calls[1].name, calls[1].arguments))
               /\ inflight' = {2}
               /\ outcome' = Settle(op, params, Wrap(Thrown(<<"Error MCP: ">>, r.body)))
          ELSE /\ calls' = calls
               /\ inflight' = {}
               /\ outcome' = Settle(op, params, x)
       /\ response' = Reply(event, outcome')
  /\ UNCHANGED <<event, op, params, concurrent, transport>>

\* the primary exchange settles and callMcpTool resumes
PrimaryReply ==
  /\ pc = "primary"
  /\ \E r \in Exchanges : \E x \in {callMcpTool(r)} :
       /\ replies' = Append(replies, r)
       /\ IF x.kind = "alternative"
          THEN /\ pc' = "alternative"
               /\ calls' = Append(calls, RestRequest(calls[1].name, calls[1].arguments))
               /\ inflight' = {2}
               /\ outcome' = outcome
               /\ response' = response
          ELSE /\ pc' = "done"
               /\ calls' = calls
               /\ inflight' = {}
               /\ outcome' = Settle(op, params, x)
               /\ response' = Reply(event, outcome')
  /\ UNCHANGED <<event, op, params, concurrent, transport>>

\* a faulty variant of AlternativeReply: the reply of the alternate call is
\* examined as the primary one is, so a -32600 error is retried again
AlternativeReplyRetrying ==
  /\ pc = "alternative"
  /\ \E r \in Exchanges : \E x \in {callMcpTool(r)} :
       /\ replies' = Append(replies, r)
       /\ IF x.kind = "alternative"
          THEN /\ pc' = "alternative"
               /\ calls' = Append(calls, calls[2])
               /\ inflight' = {Len(calls) + 1}
               /\ outcome' = outcome
               /\ response' = response
          ELSE /\ pc' = "done"
               /\ calls' = calls
               /\ inflight' = {}
               /\ outcome' = Settle(op, params, Wrap(callMcpAlternative(r)))
               /\ response' = Reply(event, outcome')
  /\ UNCHANGED <<event, op, params, concurrent, transport>>

\* the alternate exchange settles and callMcpAlternative resumes
AlternativeReply ==
  /\ pc = "alternative"
  /\ \E r \in Exchanges :
       /\ replies' = Append(replies, r)
       /\ outcome' = Settle(op, params, Wrap(callMcpAlternative(r)))
       /\ response' = Reply(event, outcome')
  /\ pc' = "done"
  /\ inflight' = {}
  /\ UNCHANGED <<event, op, params, calls, concurrent, transport>>

\* the invocation is over; the process takes the next one
NextInvocation ==
  /\ pc = "done"
  /\ pc' = "idle"
  /\ event' = NoEvent
  /\ op' = ""
  /\ params' = EmptyBag
  /\ calls' = <<>>
  /\ inflight' = {}
  /\ replies' = <<>>
  /\ outcome' = NoOutcome
  /\ response' = NoResponse
  /\ UNCHANGED <<concurrent, transport>>

Next == Invoke \/ Handle \/ PrimaryReply \/ AlternativeReply \/ NextInvocation

Spec == Init /\ [][Next]_vars

\* ---------------------------------------------------------- properties

\* an operation has been started and has ended
Ended == pc = "done" /\ op # ""

\* the operation ended by returning a pair with this status code
ReturnedWith(code) == outcome.kind = "returned" /\ outcome.result.statusCode = code

Elements(seq) == {seq[i] : i \in DOMAIN seq}

\* a value that is a string with something left after trimming
IsText(v) == v.t = "string" /\ Trim(v.s) # <<>>
\* a value that is a string and blank
IsBlank(v) == v.t = "string" /\ Trim(v.s) = <<>>

\* the required parameters of each operation (the `required` lists)
Required(o) ==
  CASE o = "handleMcpFiscalAdvice" -> {"actividad"}
    [] o = "handleMcpGenerateEmbedding" -> {"text"}
    [] o = "handleMcpStoreDocument" -> {"text"}
    [] o = "handleMcpSearchSimilarDocuments" -> {"query_text"}
    [] o = "handleMcpStoreDocumentChunk" -> {"classroom_document_id", "chunk_index", "content"}
    [] o = "handleMcpSearchSimilarChunks" -> {"query_text", "classroom_id"}
    [] o = "handleMcpChatWithClassroom" -> {"message", "classroom_id"}
    [] o = "handleMcpGetClassroomInfo" -> {"classroom_id"}
    [] o = "handleMcpCreateEmbedding" -> {"text", "classroom_id"}
    [] o = "handleMcpProfessorAssistant" -> {"question", "classroom_id"}
    [] o = "handleMcpGenerateResources" -> {"classroom_id", "resource_type", "user_id"}
    [] o = "handleMcpAnalyzeUserContext" -> {"user_id", "session_id"}
    [] OTHER -> {}

\* the required parameters that are strings
RequiredStrings(o) == Required(o) \ {"chunk_index"}

\* C1: every operation, on every Parameter Bag and every backend behaviour,
\* ends by returning a {statusCode, body} pair; no exception escapes it.
C1_NeverThrows == Ended => outcome.kind = "returned" /\ outcome.result.statusCode # 0

\* C2: an execution that ends with statusCode 400 issued no outbound call,
\* and whenever an outbound call has been issued the operation's validation
\* had passed (its code before the call neither returned nor threw).
C2_NoCallWhenRejected ==
  /\ ReturnedWith(BadRequest) => calls = <<>> /\ replies = <<>> /\ inflight = {}
  /\ calls # <<>> => op # "" /\ Begin(op, params).kind = "call"

\* C2 witness: search-similar-documents rejected limit 51 after query_text passed
C2_Witness ==
  /\ Ended /\ ReturnedWith(BadRequest)
  /\ op = "handleMcpSearchSimilarDocuments"
  /\ Get(params, "limit") = Int10(51)
  /\ outcome.result.body.received = Int10(51)

\* C3: with a required parameter absent, whatever the other parameters hold,
\* the operation ends with statusCode 400 and a `required` list naming it.
C3_MissingIsListed ==
  Ended =>
    \A r \in Required(op) :
      Get(params, r) = Undef =>
        /\ ReturnedWith(BadRequest)
        /\ r \in Elements(outcome.result.body.required)

\* C4: a blank required string parameter is rejected as a missing one is, in
\* every operation: statusCode 400, no call, a body whose required list
\* names the field.
C4_BlankIsRejected ==
  op # "" =>
    \A r \in RequiredStrings(op) :
      IsBlank(Get(params, r)) =>
        /\ Ended /\ ReturnedWith(BadRequest) /\ calls = <<>>
        /\ r \in Elements(outcome.result.body.required)

\* the two search operations
SearchOperations == {"handleMcpSearchSimilarChunks", "handleMcpSearchSimilarDocuments"}

\* every required parameter of the running operation is a non-blank string
RequiredValid == \A r \in Required(op) : IsText(Get(params, r))

\* v is absent, or parses as an integer in [1, 50]
LimitPasses(v) ==
  \/ v = Undef
  \/ LET k == ParseInt(v) IN ~IsNaN(k) /\ k.n >= 10 /\ k.n <= 500

\* v is absent, or parses as a number in [0, 1]
ThresholdPasses(v) ==
  \/ v = Undef
  \/ LET x == ParseFloat(v) IN ~IsNaN(x) /\ x.n >= 0 /\ x.n <= 10

\* the operation ended with statusCode 400, echoing v, having called nothing
RejectedEchoing(v) ==
  /\ Ended /\ ReturnedWith(BadRequest) /\ calls = <<>>
  /\ outcome.result.body.received = v

\* C5: in both search operations, with the required parameters valid, a
\* limit that does not parse as an integer in [1, 50] ends the operation with
\* statusCode 400 echoing the received value and no backend call; limit 1,
\* limit 50 and an absent limit pass validation (the backend is called).
C5_LimitIsValidated ==
  (op \in SearchOperations /\ RequiredValid) =>
    IF LimitPasses(Get(params, "limit"))
    THEN ThresholdPasses(Get(params, "threshold")) => calls # <<>>
    ELSE RejectedEchoing(Get(params, "limit"))

\* C6: in both search operations, with the other parameters valid, a supplied
\* threshold that is below 0, above 1 or not a number ends the operation with
\* statusCode 400 echoing the received value; threshold 0 and threshold 1
\* pass validation (the backend is called).
C6_ThresholdIsValidated ==
  (op \in SearchOperations /\ RequiredValid /\ LimitPasses(Get(params, "limit"))) =>
    IF ThresholdPasses(Get(params, "threshold"))
    THEN calls # <<>>
    ELSE RejectedEchoing(Get(params, "threshold"))

\* cs spells t, letter case aside (for the letters of "pdf" and "ppt")
SameLetters(cs, t) ==
  /\ Len(cs) = Len(t)
  /\ \A i \in 1..Len(t) :
       <<cs[i], t[i]>> \in {<<"p", "p">>, <<"P", "p">>, <<"d", "d">>, <<"D", "d">>,
                           <<"f", "f">>, <<"F", "f">>, <<"t", "t">>, <<"T", "t">>}

\* what generate-resources does with resource_type, classroom_id and user_id
\* being valid: pdf or ppt in any letter case is sent on, and echoed in the
\* metadata of a 200 response, in lowercase; anything else is rejected with
\* the list of allowed values and nothing is called
ResourceTypeRule ==
  LET rt == Get(params, "resource_type") IN
  IF \E t \in {cPdf, cPpt} : SameLetters(rt.s, t)
  THEN \E t \in {cPdf, cPpt} :
         /\ SameLetters(rt.s, t)
         /\ calls # <<>>
         /\ calls[1].name = "generate_resources"
         /\ calls[1].arguments.fields["resource_type"] = Str(t)
         /\ (Ended /\ ReturnedWith(OK)) =>
              outcome.result.body.metadata["resource_type"] = Str(t)
  ELSE /\ Ended /\ ReturnedWith(BadRequest) /\ calls = <<>>
       /\ outcome.result.body.allowed = <<"pdf", "ppt">>

\* C7 as stated: in generate-resources, with classroom_id and user_id valid,
\* every string resource_type whose lowercase form is not pdf or ppt is
\* rejected with statusCode 400 listing allowed = ["pdf", "ppt"] and no call;
\* pdf and ppt in any letter case are accepted and sent and echoed lowercase.
C7_AnyResourceType ==
  (/\ op = "handleMcpGenerateResources"
   /\ IsText(Get(params, "classroom_id")) /\ IsText(Get(params, "user_id"))
   /\ Get(params, "resource_type").t = "string") => ResourceTypeRule

\* C7 amended: the same for every non-blank string resource_type (a blank
\* one is answered as a missing parameter, with `required` and no `allowed`).
C7_NonBlankResourceType ==
  (/\ op = "handleMcpGenerateResources"
   /\ IsText(Get(params, "classroom_id")) /\ IsText(Get(params, "user_id"))
   /\ IsText(Get(params, "resource_type"))) => ResourceTypeRule

\* C7 witness: "PDF" was accepted, sent to the backend as "pdf" and echoed as
\* "pdf" in the metadata of the 200 response
C7_Witness ==
  /\ Ended /\ ReturnedWith(OK)
  /\ op = "handleMcpGenerateResources"
  /\ Get(params, "resource_type") = Str(<<"P", "D", "F">>)
  /\ calls[1].arguments.fields["resource_type"] = Str(cPdf)
  /\ outcome.result.body.metadata["resource_type"] = Str(cPdf)

\* the parsed body b is an object with a `result` field
HasResult(b) == b.t = "object" /\ b.result # Undef

\* C8: when the primary call answers HTTP 200 with a JSON object the
\* operation returns statusCode 200 with success = true and data equal to
\* the object's `result` field if it has one (whatever its value: null, 0,
\* false, ""), and equal to the parsed body itself if it has none.
C8_ResultIsUnwrapped ==
  (/\ Ended /\ Len(replies) = 1
   /\ replies[1].kind = "response" /\ replies[1].statusCode = OK
   /\ replies[1].body.t = "object") =>
    /\ ReturnedWith(OK)
    /\ outcome.result.body.success
    /\ outcome.result.body.data =
         (IF HasResult(replies[1].body) THEN LiftVal(replies[1].body.result)
          ELSE replies[1].body)

\* the settled exchange is a non-200 reply whose body is a JSON-RPC error
\* object with code -32600
IsInvalidRequestReply(r) ==
  /\ r.kind = "response" /\ r.statusCode # 200
  /\ r.body.t = "object" /\ r.body.error # Undef /\ r.body.code = -32600

\* C9: after a non-200 primary reply carrying a JSON-RPC error with code
\* -32600 exactly one more call is issued, a POST of the raw tool arguments,
\* without envelope, to /tools/<toolName>/call; when it answers HTTP 200 its
\* body is the payload of a 200 result, otherwise the operation fails (500);
\* whatever the alternate call answers, no third call is issued.
C9_RetriesOnceOnInvalidRequest ==
  /\ Len(calls) <= 2
  /\ (Len(replies) >= 1 /\ IsInvalidRequestReply(replies[1])) =>
       /\ Len(calls) = 2
       /\ calls[2] = [path |-> <<"/tools/", calls[1].name, "/call">>,
                      httpMethod |-> "POST", jsonrpc |-> "", method |-> "",
                      name |-> "", arguments |-> calls[1].arguments]
       /\ Len(replies) = 1 => pc = "alternative" /\ inflight = {2}
       /\ Len(replies) = 2 =>
            /\ pc = "done" /\ inflight = {}
            /\ IF replies[2].kind = "response" /\ replies[2].statusCode = 200
               THEN /\ ReturnedWith(OK)
                    /\ outcome.result.body.data = replies[2].body
               ELSE ReturnedWith(InternalError)

\* C9 witness: the alternate call was itself answered with a non-200 -32600
\* error and the operation ended, failed, after two calls
C9_Witness ==
  /\ Ended /\ Len(calls) = 2 /\ Len(replies) = 2
  /\ IsInvalidRequestReply(replies[1]) /\ IsInvalidRequestReply(replies[2])
  /\ ReturnedWith(InternalError)

IsPrimary(c) == c.path = <<"/mcp">>

\* C10: for one invocation at most one primary and at most one alternate
\* call are issued; the alternate call is issued only once the primary call
\* has settled; the two are never in flight together; and a result or a
\* response exists only when every issued call has settled.
C10_CallsAreSequentialAndAwaited ==
  /\ Cardinality({i \in DOMAIN calls : IsPrimary(calls[i])}) <= 1
  /\ Cardinality({i \in DOMAIN calls : ~IsPrimary(calls[i])}) <= 1
  /\ Len(calls) <= 2
  /\ Len(calls) = 2 => IsPrimary(calls[1]) /\ Len(replies) >= 1 /\ 1 \notin inflight
  /\ Cardinality(inflight) <= 1
  /\ (outcome.kind # "none" \/ response # NoResponse) =>
       inflight = {} /\ Len(replies) = Len(calls)

\* C10 witness: the handler answered an inbound request with 200 after the
\* primary and then the alternate call had both settled
C10_Witness ==
  /\ pc = "done" /\ event.isEvent /\ op # ""
  /\ Len(calls) = 2 /\ Len(replies) = 2 /\ inflight = {}
  /\ response.statusCode = OK

\* the exchange settled as an HTTP response with a status other than 200
IsNon200(r) == r.kind = "response" /\ r.statusCode # 200

\* the exchange with the backend is over and has failed: the last settled
\* exchange is a transport error or a non-200 reply that is not retried
ExchangeFailed ==
  /\ Ended /\ replies # <<>>
  /\ LET last == replies[Len(replies)] IN
       \/ last.kind = "error"
       \/ IsNon200(last) /\ (Len(replies) = 2 \/ ~IsInvalidRequestReply(last))

\* C11: in each of the twelve operations a failed backend exchange ends the
\* operation with statusCode 500 and a body with an error message, a
\* timestamp and a hint; after a non-200 reply the message carries the
\* serialized backend body, after a transport error the underlying message.
C11_FailureIsRendered ==
  ExchangeFailed =>
    LET last == replies[Len(replies)]
        b == outcome.result.body IN
    /\ ReturnedWith(InternalError)
    /\ b.error # <<>> /\ b.timestamp /\ b.hint # ""
    /\ (IsNon200(last) /\ ~PropThrows(last.body)) => b.errorBody = last.body
    /\ last.kind = "error" => last.message \in Elements(b.error)

\* the handler has answered the inbound event
Answered == pc = "done" /\ event.isEvent

\* C12: every response of the handler (200, 400, 404, 500, health, info and
\* the OPTIONS preflight reply) is a serialized JSON object that carries a
\* timestamp field.
C12_EveryResponseHasTimestamp ==
  Answered =>
    /\ response # NoResponse
    /\ response.headers.ContentType = "application/json"
    /\ response.body.timestamp

\* C13: every response of the handler has a statusCode among 200, 400, 404
\* and 500 and the fixed headers (Content-Type application/json and the
\* three CORS headers), whatever the request and whatever the backend does;
\* the status code of the backend's reply is never the response's.
C13_StatusCodesAndHeaders ==
  /\ response.statusCode \in {0, 200, 400, 404, 500}
  /\ Answered =>
       /\ response.statusCode \in {200, 400, 404, 500}
       /\ response.headers =
            [ContentType |-> "application/json", AllowOrigin |-> "*",
             AllowMethods |-> "GET, POST, OPTIONS",
             AllowHeaders |-> "Content-Type, Authorization"]
       /\ \A i \in DOMAIN replies :
            replies[i].statusCode \notin {0, 200} => response.statusCode # replies[i].statusCode

\* C13 witness: the backend answered 503 and the handler answered 500
C13_Witness ==
  /\ Answered /\ Len(replies) = 1
  /\ replies[1].kind = "response" /\ replies[1].statusCode = 503
  /\ response.statusCode = InternalError

\* C14: a request whose method is OPTIONS (in httpMethod or in
\* requestContext.http.method) is answered with statusCode 200 whatever its
\* path and body, and no operation is run for it: nothing is routed, no
\* parameter is extracted and no backend call is issued.
C14_OptionsIsAnswered ==
  (event.isEvent /\ (event.httpMethod = "OPTIONS" \/ event.contextMethod = "OPTIONS")) =>
    /\ pc = "done"
    /\ response.statusCode = 200 /\ response.body.message = "OK"
    /\ op = "" /\ params = <<>>
    /\ calls = <<>> /\ replies = <<>> /\ inflight = {}

\* C14 witness: an OPTIONS request to a routable path with a body that is
\* not valid JSON was answered 200
C14_Witness ==
  /\ Answered /\ event.httpMethod = "OPTIONS"
  /\ event.path = "/classroom-info" /\ event.bodyKind = "invalid"
  /\ response.statusCode = 200

\* the event carries the method OPTIONS
HasOptionsMethod == event.httpMethod = "OPTIONS" \/ event.contextMethod = "OPTIONS"

\* C15: a request that is not OPTIONS and whose path matches no route is
\* answered 404 with an available_endpoints list holding /health and one
\* route for each of the twelve operations (thirteen entries at least).
C15_NotFoundListsEveryRoute ==
  (/\ Answered /\ ~HasOptionsMethod /\ event.bodyKind # "invalid"
   /\ getEndpoint(event) = "unknown") =>
    /\ response.statusCode = 404
    /\ "/health" \in Elements(response.body.available_endpoints)
    /\ Cardinality(Elements(response.body.available_endpoints) \ {"/health"})
         >= Cardinality(Operations)

\* the path-substring table, in the order of its rows: the substrings of a
\* row and what the row dispatches to (an operation, or the health reply)
RoutingTable ==
  << [subs |-> {"/fiscal-advice"}, to |-> "handleMcpFiscalAdvice"],
     [subs |-> {"/generate-embedding", "/embedding"}, to |-> "handleMcpGenerateEmbedding"],
     [subs |-> {"/store-document-chunk", "/store-chunk"}, to |-> "handleMcpStoreDocumentChunk"],
     [subs |-> {"/search-chunks", "/chunks"}, to |-> "handleMcpSearchSimilarChunks"],
     [subs |-> {"/chat-classroom"}, to |-> "handleMcpChatWithClassroom"],
     [subs |-> {"/classroom-info", "/classroom"}, to |-> "handleMcpGetClassroomInfo"],
     [subs |-> {"/create-embedding"}, to |-> "handleMcpCreateEmbedding"],
     [subs |-> {"/professor-assistant", "/professor"}, to |-> "handleMcpProfessorAssistant"],
     [subs |-> {"/generate-resources", "/resources"}, to |-> "handleMcpGenerateResources"],
     [subs |-> {"/analyze-user-context", "/analyze-context"},
      to |-> "handleMcpAnalyzeUserContext"],
     [subs |-> {"/health"}, to |-> "health"] >>

\* the path of the inbound event
RequestPath == OrStr(event.path, OrStr(event.rawPath, event.resourcePath))

\* the path of the inbound event contains a substring of row i
RowMatches(i) == \E sub \in RoutingTable[i].subs : Includes(RequestPath, sub)

\* the inbound event was dispatched to what row i names
DispatchedTo(i) ==
  IF RoutingTable[i].to = "health"
  THEN op = "" /\ response.statusCode = 200 /\ response.body.status = "healthy"
  ELSE op = RoutingTable[i].to

\* the inbound event is one the handler routes
Routable == event.isEvent /\ ~HasOptionsMethod /\ event.bodyKind # "invalid"

C17_ErrorsAreCaught ==
  (Answered /\ ~HasOptionsMethod) =>
    /\ response # NoResponse
    /\ response.headers.ContentType = "application/json"
    /\ (event.bodyKind = "invalid" \/ outcome.kind = "threw") =>
         /\ response.statusCode = 500
         /\ response.body.error # <<>>
         /\ \A i \in DOMAIN response.body.error : response.body.error[i] # ""

\* C17 witness: an operation threw on a non-string parameter and the handler
\* answered 500 with the message of the TypeError
C17_Witness ==
  /\ Answered /\ ~HasOptionsMethod /\ op # ""
  /\ outcome.kind = "threw"
  /\ response.statusCode = 500
  /\ response.body.error = <<"x.trim is not a function">>

\* ------------------------------- concurrent calls of callMcpTool

\* the last reading of the clock, and the number of calls of callMcpTool
\* that run in the process
MaxClock == 2
MaxRequests == 2

\* `call-${Date.now()}`
CallId(t) == <<"call-", t>>

\* mcpRequest with its id: the Backend Call Envelope built at clock reading t
Envelope(t, toolName, toolArgs) ==
  [id |-> CallId(t), request |-> McpRequest(toolName, toolArgs)]

\* the tool calls two requests make once their validation has passed
ConcurrentPlans ==
  {Begin("handleMcpFiscalAdvice", Bag("actividad" :> Str(cAb))),
   Begin("handleMcpGetClassroomInfo", Bag("classroom_id" :> Str(cAb)))}

\* a millisecond passes
Tick ==
  /\ now < MaxClock
  /\ now' = now + 1
  /\ UNCHANGED <<requests, invocation, transport>>

\* a request reaches callMcpTool, which builds its envelope and awaits the
\* primary exchange; the requests already awaiting stay as they are
CallTool ==
  /\ Len(requests) < MaxRequests
  /\ \E plan \in ConcurrentPlans :
       requests' = Append(requests, [pc |-> "primary",
                                     envelope |-> Envelope(now, plan.tool, plan.args)])
  /\ UNCHANGED <<now, invocation, transport>>

\* the primary exchange of one of the requests settles
PrimarySettles ==
  /\ \E i \in DOMAIN requests : \E r \in Exchanges : \E x \in {callMcpTool(r)} :
       /\ requests[i].pc = "primary"
       /\ requests' = [requests EXCEPT ![i].pc =
                         IF x.kind = "alternative" THEN "alternative" ELSE "done"]
  /\ UNCHANGED <<now, invocation, transport>>

\* the alternate exchange of one of the requests settles
AlternativeSettles ==
  /\ \E i \in DOMAIN requests :
       /\ requests[i].pc = "alternative"
       /\ requests' = [requests EXCEPT ![i].pc = "done"]
  /\ UNCHANGED <<now, invocation, transport>>

NextConcurrent == Tick \/ CallTool \/ PrimarySettles \/ AlternativeSettles

SpecConcurrent == Init /\ [][NextConcurrent]_vars

\* C18: any two envelopes built in the process carry distinct ids of the
\* form call-<timestamp>, also those of two requests handled concurrently
\* at the same reading of the clock.
C18_IdsAreDistinct ==
  /\ \A i \in DOMAIN requests :
       Len(requests[i].envelope.id) = 2 /\ requests[i].envelope.id[1] = "call-"
  /\ \A i, j \in DOMAIN requests :
       i # j => requests[i].envelope.id # requests[j].envelope.id

\* ------------------------ makeHttpRequest: the end of a response

\* the longest response text, in pieces
MaxPieces == 5

\* the pieces a response text is made of: the SSE field prefixes, a line
\* break, and two JSON texts
DataPrefix == "data: "
WrappedJson == "{\"result\":{\"ok\":1}}"
PlainJson == "{\"ok\":1}"
Pieces == {DataPrefix, "data:", "event: message", "\n", WrappedJson, PlainJson}

\* the value of a JSON text
JsonValue(piece) ==
  IF piece = WrappedJson THEN JsonObj("wrapped", Obj("ok"), Undef, 0)
  ELSE JsonObj("ok", Undef, Undef, 0)

\* JSON.parse(text): white space around one JSON text is allowed, anything
\* else is a SyntaxError
JsonParse(text) ==
  LET rest == SelectSeq(text, LAMBDA c : ~IsWhite(c)) IN
  IF Len(rest) = 1 /\ rest[1] \in {WrappedJson, PlainJson}
  THEN [ok |-> TRUE, value |-> JsonValue(rest[1])]
  ELSE [ok |-> FALSE, value |-> NoBody]

\* text.split('\n')
RECURSIVE SplitLines(_)
SplitLines(text) ==
  IF \A i \in DOMAIN text : text[i] # "\n" THEN <<text>>
  ELSE LET k == CHOOSE i \in DOMAIN text :
                  text[i] = "\n" /\ \A j \in 1..(i - 1) : text[j] # "\n"
       IN <<SubSeq(text, 1, k - 1)>> \o SplitLines(SubSeq(text, k + 1, Len(text)))

\* line.startsWith('data: ')
StartsWithData(line) == line # <<>> /\ line[1] = DataPrefix

\* the for loop: line.substring(6) of the first line that starts with
\* 'data: ', or '' when there is none
RECURSIVE FirstData(_)
FirstData(lines) ==
  IF lines = <<>> THEN <<>>
  ELSE IF StartsWithData(Head(lines)) THEN Tail(Head(lines))
  ELSE FirstData(Tail(lines))

\* the body is the raw text
RawBody(data) == LiftVal(Str(data))

\* the for loop without its break: what the last line that starts with
\* 'data: ' leaves in jsonData
RECURSIVE LastData(_)
LastData(lines) ==
  IF lines = <<>> THEN <<>>
  ELSE IF StartsWithData(lines[Len(lines)]) THEN Tail(lines[Len(lines)])
  ELSE LastData(SubSeq(lines, 1, Len(lines) - 1))

\* a faulty variant of onEnd: the last data line is honoured, not the first
onEndLastDataLine(r) ==
  LET jsonData == LastData(SplitLines(Trim(r.data))) IN
  IF Includes(r.contentType, "text/event-stream") /\ jsonData # <<>>
  THEN (IF JsonParse(jsonData).ok THEN JsonParse(jsonData).value ELSE RawBody(r.data))
  ELSE IF JsonParse(r.data).ok THEN JsonParse(r.data).value
  ELSE RawBody(r.data)

\* the callback of res.on('end'): the body makeHttpRequest resolves with
onEnd(r) ==
  LET jsonData == FirstData(SplitLines(Trim(r.data))) IN
  IF Includes(r.contentType, "text/event-stream") /\ jsonData # <<>>
  THEN (IF JsonParse(jsonData).ok THEN JsonParse(jsonData).value ELSE RawBody(r.data))
  ELSE IF JsonParse(r.data).ok THEN JsonParse(r.data).value
  ELSE RawBody(r.data)

\* the response texts: every sequence of at most MaxPieces pieces, and the
\* frame "event: message\ndata: {"result":{"ok":1}}\n\n"
SseFrame == <<"event: message", "\n", DataPrefix, WrappedJson, "\n", "\n">>
Texts == UNION {[1..n -> Pieces] : n \in 0..MaxPieces} \cup {SseFrame}

ContentTypes == {"application/json", "text/event-stream", "text/event-stream; charset=utf-8"}

\* a response of the backend has arrived whole
Received ==
  /\ Idle
  /\ res \in [contentType : ContentTypes, data : Texts]
  /\ resolved = NoBody
  /\ interpreted = NoExtract

\* the `end` event: the promise of makeHttpRequest resolves
End ==
  /\ resolved = NoBody
  /\ resolved' = onEnd(res)
  /\ UNCHANGED <<res, interpreted, invocation, concurrent>>

\* callMcpTool resumes with the resolved response, whose status is 200
Interpret ==
  /\ resolved # NoBody
  /\ interpreted = NoExtract
  /\ interpreted' = callMcpTool(Response(OK, resolved))
  /\ UNCHANGED <<res, resolved, invocation, concurrent>>

NextTransport == End \/ Interpret

SpecTransport == Received /\ [][NextTransport]_vars

\* the content type of the response names an event stream
IsEventStream == Includes(res.contentType, "text/event-stream")

\* the lines of the response text
ResLines == SplitLines(Trim(res.data))

\* line k is the first line of the response that starts with "data: "
IsFirstDataLine(k) ==
  /\ StartsWithData(ResLines[k])
  /\ \A j \in 1..(k - 1) : ~StartsWithData(ResLines[j])

\* the body the three steps, taken in their order, give for the response
ExpectedBody ==
  IF /\ IsEventStream
     /\ \E k \in DOMAIN ResLines : IsFirstDataLine(k) /\ JsonParse(Tail(ResLines[k])).ok
  THEN LET k == CHOOSE i \in DOMAIN ResLines : IsFirstDataLine(i)
       IN JsonParse(Tail(ResLines[k])).value
  ELSE IF JsonParse(res.data).ok THEN JsonParse(res.data).value
  ELSE LiftVal(Str(res.data))

\* C19: makeHttpRequest always resolves, and with the body that these steps
\* give in this order: (1) for an event-stream content type, the JSON value
\* of the remainder of the first line starting with "data: ", later lines
\* being ignored; (2) failing that, the JSON value of the whole text;
\* (3) failing that, the raw text. The frame
\* "event: message\ndata: {"result":{"ok":1}}\n\n" gives the adapter the
\* result {"ok":1}.
C19_ParsingOrder ==
  /\ interpreted # NoExtract => resolved # NoBody
  /\ resolved # NoBody => resolved = ExpectedBody
  /\ (res.data = SseFrame /\ IsEventStream /\ interpreted # NoExtract) =>
       /\ interpreted.kind = "return"
       /\ interpreted.payload = JsonObj("ok", Undef, Undef, 0)

\* C19 witness: of two data lines the first was parsed and the second ignored
C19_Witness ==
  /\ res.contentType = "text/event-stream"
  /\ res.data = <<DataPrefix, PlainJson, "\n", DataPrefix, WrappedJson>>
  /\ resolved = JsonObj("ok", Undef, Undef, 0)
  /\ interpreted.kind = "return"

\* the backend tool of each operation
ToolName(o) ==
  CASE o = "handleMcpFiscalAdvice" -> "get_fiscal_advice"
    [] o = "handleMcpGenerateEmbedding" -> "generate_embedding"
    [] o = "handleMcpStoreDocument" -> "store_document"
    [] o = "handleMcpSearchSimilarDocuments" -> "search_similar_documents"
    [] o = "handleMcpStoreDocumentChunk" -> "store_document_chunk"
    [] o = "handleMcpSearchSimilarChunks" -> "search_similar_chunks"
    [] o = "handleMcpChatWithClassroom" -> "chat_with_classroom_assistant"
    [] o = "handleMcpGetClassroomInfo" -> "get_classroom_info"
    [] o = "handleMcpCreateEmbedding" -> "create_embedding"
    [] o = "handleMcpProfessorAssistant" -> "professor_assistant"
    [] o = "handleMcpGenerateResources" -> "generate_resources"
    [] o = "handleMcpAnalyzeUserContext" -> "analyze_and_update_user_context"
    [] OTHER -> ""

\* C20: the primary call of every operation is a JSON-RPC envelope POSTed
\* to /mcp with method "tools/call" and params {name, arguments}, name being
\* the operation's tool; the arguments are nested under `request` for fiscal
\* advice and chat-with-classroom and flat for the ten other operations,
\* whatever the parameter values.
C20_EnvelopeShape ==
  calls # <<>> =>
    /\ calls[1].path = <<"/mcp">> /\ calls[1].httpMethod = "POST"
    /\ calls[1].jsonrpc = "2.0" /\ calls[1].method = "tools/call"
    /\ calls[1].name = ToolName(op) /\ calls[1].name # ""
    /\ calls[1].arguments.nested =
         (op \in {"handleMcpFiscalAdvice", "handleMcpChatWithClassroom"})

\* C20 witness: chat-with-classroom, reached through the handler, called its
\* tool with the arguments under `request`
C20_Witness ==
  /\ event.isEvent /\ op = "handleMcpChatWithClassroom"
  /\ calls # <<>> /\ calls[1].name = "chat_with_classroom_assistant"
  /\ calls[1].arguments.nested
  /\ "message" \in DOMAIN calls[1].arguments.fields

\* ------------------------------------------ the outcome of the exchange

\* every call the operation issued has settled, and the last one settled
\* as an HTTP response with status exactly 200
LastCallAnswered200 ==
  /\ calls # <<>> /\ Len(replies) = Len(calls)
  /\ replies[Len(replies)].kind = "response"
  /\ replies[Len(replies)].statusCode = 200

\* the parsed body b is a JSON-RPC error object
IsErrorObject(b) == b.t = "object" /\ b.error # Undef

\* C21: an operation returns statusCode 200 with success = true if and only
\* if its validation passed (it issued a call) and the last call it issued,
\* the primary one or the alternate one after a non-200 -32600 reply,
\* completed with HTTP status exactly 200; every other backend status (201
\* included) and every transport error gives statusCode 500; and a 200 reply
\* whose body is a JSON-RPC error object is reported as success with that
\* error object as data.
C21_SuccessIffLastCallIs200 ==
  Ended =>
    /\ (ReturnedWith(OK) /\ outcome.result.body.success) <=> LastCallAnswered200
    /\ (calls # <<>> /\ ~LastCallAnswered200) => ReturnedWith(InternalError)
    /\ (LastCallAnswered200 /\ IsErrorObject(replies[Len(replies)].body)) =>
         /\ ReturnedWith(OK) /\ outcome.result.body.success
         /\ outcome.result.body.data = replies[Len(replies)].body

\* ------------------------------------------------ numeric parameters

\* the numeric parameters of the operations, and whether each is parsed as
\* an integer (parseInt) or as a float (parseFloat)
NumericParameters(o) ==
  CASE o = "handleMcpSearchSimilarDocuments" ->
         {[name |-> "limit", integer |-> TRUE], [name |-> "threshold", integer |-> FALSE]}
    [] o = "handleMcpSearchSimilarChunks" ->
         {[name |-> "limit", integer |-> TRUE], [name |-> "threshold", integer |-> FALSE]}
    [] o = "handleMcpStoreDocumentChunk" ->
         {[name |-> "chunk_index", integer |-> TRUE], [name |-> "token_count", integer |-> TRUE]}
    [] OTHER -> {}

\* the numeric value of v as parameter q
Parsed(q, v) == IF q.integer THEN ParseInt(v) ELSE ParseFloat(v)

\* the caller supplied parameter q of the running operation, with a value
\* that parses as a number
Supplied(q) ==
  /\ Get(params, q.name) # Undef
  /\ ~IsNaN(Parsed(q, Get(params, q.name)))

\* C22: when the validation of an operation passed (it issued its call),
\* every numeric parameter the caller supplied is in the argument object sent
\* to the backend with its parsed numeric value, also when that value is
\* zero (chunk_index 0, token_count 0, threshold 0): a supplied value is
\* never left out for the backend to replace by its default.
C22_NumericIsForwarded ==
  calls # <<>> =>
    \A q \in NumericParameters(op) :
      Supplied(q) =>
        Get(calls[1].arguments.fields, q.name) = Parsed(q, Get(params, q.name))

====
